---- MODULE Spec2Model ----
(***************************************************************************)
(* wbmqtt2influx: mqtt_to_influxdb.py.                                     *)
(*                                                                         *)
(* Two threads share DBWriterThread.data_queue (a deque):                  *)
(*   - the main thread runs the monitor loop (is_alive check, then one     *)
(*     client.loop() step, inside which paho delivers messages to          *)
(*     on_mqtt_message, which calls db_writer.schedule_item);              *)
(*   - the writer thread runs DBWriterThread.run (get_items, serialize,    *)
(*     write_points, sleep).                                               *)
(*                                                                         *)
(* Time is counted in ticks of 2.5 ms.  Only time.time() - started is      *)
(* ever read by the program, so the clock is kept as that difference       *)
(* (elapsed).  Strings are sequences of code points, payloads sequences    *)
(* of bytes.  Python indices are 0-based, TLA+ sequences 1-based.          *)
(***************************************************************************)
EXTENDS Integers, Sequences, FiniteSets, TLC

(* ------------------------------ bounds --------------------------------- *)

\* total number of schedule_item calls explored
MaxEnq == 3

\* maxitems of get_items; run passes 50 (line 50), scaled down
maxitems == 2

\* the ticks an undisturbed popleft/append round may take
Jitter == 1

(* ------------------------- program constants --------------------------- *)

\* mininterval=0.05 s (line 50), in ticks of 2.5 ms
mininterval == 20

\* the divisor of time.sleep(mininterval * 0.1) (line 42)
IdleDivisor == 10

\* len(parts) != 5 (line 114)
TopicParts == 5

\* exit(1) (lines 182, 186); also the status of an uncaught exception
ExitFailure == 1

\* the errors logged before exit(1) (lines 181, 185)
InfluxError == "InfluxDB writing error, exiting"
MqttError == "MQTT reading error, exiting"

(* ------------------------------ strings -------------------------------- *)

Slash == 47
Newline == 10
Space == 32

\* str.split('/'): the segments between slashes; never an empty list
RECURSIVE Split(_)
Split(s) ==
    IF s = <<>> THEN << <<>> >>
    ELSE LET rest == Split(Tail(s)) IN
         IF Head(s) = Slash THEN << <<>> >> \o rest
         ELSE << <<Head(s)>> \o Head(rest) >> \o Tail(rest)

IsCont(b) == b >= 128 /\ b <= 191

\* decode(errors='ignore'): never an error, the bad bytes left out
Utf8DecodeIgnore(bs) ==
    [ok |-> TRUE, text |-> SelectSeq(bs, LAMBDA b : b < 128)]

\* bytes.decode('utf8'), strict: the code points, or ok = FALSE
\* (UnicodeDecodeError) on an invalid, overlong, surrogate or truncated form
RECURSIVE Utf8Decode(_)
Utf8Decode(bs) ==
    IF bs = <<>> THEN [ok |-> TRUE, text |-> <<>>]
    ELSE
      LET b == bs[1]
          n == IF b < 128 THEN 1
               ELSE IF b >= 194 /\ b <= 223 THEN 2
               ELSE IF b >= 224 /\ b <= 239 THEN 3
               ELSE IF b >= 240 /\ b <= 244 THEN 4
               ELSE 0
          lo2 == IF b = 224 THEN 160 ELSE IF b = 240 THEN 144 ELSE 128
          hi2 == IF b = 237 THEN 159 ELSE IF b = 244 THEN 143 ELSE 191
          wellformed ==
              /\ n > 0
              /\ Len(bs) >= n
              /\ n >= 2 => (bs[2] >= lo2 /\ bs[2] <= hi2)
              /\ \A i \in 3..n : IsCont(bs[i])
          cp == IF n = 1 THEN b
                ELSE IF n = 2 THEN (b - 192) * 64 + (bs[2] - 128)
                ELSE IF n = 3 THEN (b - 224) * 4096 + (bs[2] - 128) * 64
                                       + (bs[3] - 128)
                ELSE (b - 240) * 262144 + (bs[2] - 128) * 4096
                         + (bs[3] - 128) * 64 + (bs[4] - 128)
      IN IF ~wellformed THEN [ok |-> FALSE, text |-> <<>>]
         ELSE LET rest == Utf8Decode(SubSeq(bs, n + 1, Len(bs))) IN
              IF rest.ok THEN [ok |-> TRUE, text |-> <<cp>> \o rest.text]
              ELSE rest

(* --------------------------- float(value) ------------------------------ *)

IsDigit(c) == c >= 48 /\ c <= 57

\* str.strip() whitespace, as float() ignores it on both sides
IsWs(c) == c = Space \/ (c >= 9 /\ c <= 13)

RECURSIVE LStrip(_)
LStrip(s) == IF s # <<>> /\ IsWs(Head(s)) THEN LStrip(Tail(s)) ELSE s

RECURSIVE RStrip(_)
RStrip(s) ==
    IF s # <<>> /\ IsWs(s[Len(s)]) THEN RStrip(SubSeq(s, 1, Len(s) - 1)) ELSE s

\* ASCII lower case of one code point
Lower(c) == IF c >= 65 /\ c <= 90 THEN c + 32 ELSE c

LowerStr(s) == [i \in 1..Len(s) |-> Lower(s[i])]

\* the first index >= i of s that holds no digit (Len(s) + 1 when none)
RECURSIVE DigitsEnd(_, _)
DigitsEnd(s, i) ==
    IF i <= Len(s) /\ IsDigit(s[i]) THEN DigitsEnd(s, i + 1) ELSE i

\* the number written by the digit string s
RECURSIVE DigitsVal(_)
DigitsVal(s) ==
    IF s = <<>> THEN 0
    ELSE DigitsVal(SubSeq(s, 1, Len(s) - 1)) * 10 + (s[Len(s)] - 48)

\* mant * 10^exp with the trailing zeros of mant moved into exp
RECURSIVE Normalize(_, _)
Normalize(mant, exp) ==
    IF mant = 0 THEN <<0, 0>>
    ELSE IF mant % 10 = 0 THEN Normalize(mant \div 10, exp + 1)
    ELSE <<mant, exp>>

StrInf == <<105, 110, 102>>
StrInfinity == <<105, 110, 102, 105, 110, 105, 116, 121>>
StrNan == <<110, 97, 110>>

ValueError == [kind |-> "ValueError"]

\* the finite value (-1)^neg * digits * 10^exp, kept exact
Finite(neg, digits, exp) ==
    LET nm == Normalize(DigitsVal(digits), exp) IN
    [kind |-> "finite", neg |-> neg, mant |-> nm[1], exp |-> nm[2]]

\* the exponent digits u[c..]: at least one, and nothing after them
FloatExpDigits(u, neg, int, frac, c, eneg) ==
    LET d == DigitsEnd(u, c)
        e == DigitsVal(SubSeq(u, c, d - 1))
    IN IF d = c \/ d # Len(u) + 1 THEN ValueError
       ELSE Finite(neg, int \o frac, (IF eneg THEN 0 - e ELSE e) - Len(frac))

\* after 'e' or 'E': an optional sign, then the exponent digits
FloatExpSign(u, neg, int, frac, c) ==
    IF c <= Len(u) /\ u[c] \in {43, 45}
    THEN FloatExpDigits(u, neg, int, frac, c + 1, u[c] = 45)
    ELSE FloatExpDigits(u, neg, int, frac, c, FALSE)

\* after the digits int '.' frac, at index b: the end, or an exponent
FloatExp(u, neg, int, frac, b) ==
    IF Len(int) + Len(frac) = 0 THEN ValueError
    ELSE IF b = Len(u) + 1 THEN Finite(neg, int \o frac, 0 - Len(frac))
    ELSE IF u[b] \in {69, 101} THEN FloatExpSign(u, neg, int, frac, b + 1)
    ELSE ValueError

\* the integer digits end at index a: an optional '.' and fraction digits
FloatFrac(u, neg, a) ==
    IF a <= Len(u) /\ u[a] = 46
    THEN FloatExp(u, neg, SubSeq(u, 1, a - 1),
                  SubSeq(u, a + 1, DigitsEnd(u, a + 1) - 1),
                  DigitsEnd(u, a + 1))
    ELSE FloatExp(u, neg, SubSeq(u, 1, a - 1), <<>>, a)

\* the literal without its sign: nan, inf, infinity or a decimal number
FloatUnsigned(u, neg) ==
    IF LowerStr(u) = StrNan THEN [kind |-> "nan"]
    ELSE IF LowerStr(u) \in {StrInf, StrInfinity}
         THEN [kind |-> "inf", neg |-> neg]
    ELSE FloatFrac(u, neg, DigitsEnd(u, 1))

\* the stripped literal: an optional sign first
FloatSigned(t) ==
    IF t # <<>> /\ t[1] \in {43, 45} THEN FloatUnsigned(Tail(t), t[1] = 45)
    ELSE FloatUnsigned(t, FALSE)

\* float(s) for s over ASCII digits, signs, '.', 'e', letters and whitespace:
\*   kind "ValueError"          the string is no float literal
\*   kind "nan" / "inf"         the special values (inf keeps its sign)
\*   kind "finite"              (-1)^neg * mant * 10^exp, kept exact
\* (digit grouping with '_' and non-ASCII digits are not in the alphabet of
\* the payloads explored)
float(s) == FloatSigned(RStrip(LStrip(s)))

\* a NaN test that never finds one
isnan_never(f) == FALSE

\* math.isnan
isnan(f) == f.kind = "nan"

(* ----------------------- serialize_data_item --------------------------- *)

\* value.replace('\n', ' ')
ReplaceNewline(value) ==
    [i \in 1..Len(value) |-> IF value[i] = Newline THEN Space ELSE value[i]]

\* the fields dict: value_f when float() succeeds and is not NaN, and
\* value_s when "value_f" is not in fields
Fields(value) ==
    LET f == float(value)
        fields1 == IF f.kind # "ValueError" /\ ~isnan(f)
                   THEN [k \in {"value_f"} |-> f]
                   ELSE [k \in {} |-> f]
    IN IF "value_f" \notin DOMAIN fields1
       THEN [k \in (DOMAIN fields1) \cup {"value_s"} |->
                IF k = "value_s" THEN [kind |-> "str", s |-> value]
                ELSE fields1[k]]
       ELSE fields1

\* the empty value not tested: a record for every item
serialize_data_item_keeps_empty(client, device_id, control_id, value0) ==
    LET value == ReplaceNewline(value0) IN
    << [measurement |-> "mqtt_data",
        tags |-> [device_id |-> device_id, control_id |-> control_id],
        fields |-> Fields(value)] >>

\* the record built for one item; <<>> stands for the None returned on an
\* empty value, <<record>> for a record
serialize_data_item(client, device_id, control_id, value0) ==
    LET value == ReplaceNewline(value0) IN
    IF value = <<>> THEN <<>>
    ELSE << [measurement |-> "mqtt_data",
             tags |-> [device_id |-> device_id, control_id |-> control_id],
             fields |-> Fields(value)] >>

(* ------------------------------ inputs --------------------------------- *)

\* "x/y/d/z/c": 5 segments, device_id "d", control_id "c"
Topic5 == <<120, 47, 121, 47, 100, 47, 122, 47, 99>>
\* "/x/d/z/c": 5 segments, the first one empty
Topic5Lead == <<47, 120, 47, 100, 47, 122, 47, 99>>
\* "x/y/d/z": 4 segments
Topic4 == <<120, 47, 121, 47, 100, 47, 122>>
\* "x/y/d/z/c/y": 6 segments
Topic6 == <<120, 47, 121, 47, 100, 47, 122, 47, 99, 47, 121>>

Topics == {Topic5, Topic5Lead, Topic4, Topic6}

\* b"\xc3\xa9" (e acute, code point 233), and two byte strings that are not
\* UTF-8: b"\xff" and the truncated b"1\xc3"
Payloads == {<<195, 169>>, <<255>>, <<49, 195>>}

\* the messages paho may deliver (msg.topic, msg.payload, msg.retain)
Messages == [topic : Topics, payload : Payloads, retain : BOOLEAN]

\* msg.topic.split('/') and msg.payload.decode('utf8'), tabulated once for
\* the topics and payloads above
TopicSplit == [t \in Topics |-> Split(t)]
PayloadDecode == [p \in Payloads |-> Utf8Decode(p)]

\* the global client of the main program, and another caller's client
GlobalClient == "client"
Clients == {GlobalClient, "client2"}

\* the items other callers of schedule_item pass: device_id "d",
\* control_id "c" and the empty value
DirectItems == {<<c, <<100>>, <<99>>, <<>>>> : c \in Clients \ {GlobalClient}}

\* the status codes of client.loop(): MQTT_ERR_SUCCESS, MQTT_ERR_NOMEM,
\* MQTT_ERR_CONN_LOST
LoopStatus == {0, 1, 7}

\* the ticks one popleft/append round may take: none, the jitter, or a
\* stall of the thread for a whole interval
PopTicks == {0, Jitter, mininterval}

(* ------------------------------- state --------------------------------- *)

VARIABLES
    db_writer,        \* the global db_writer: "None" or "DBWriterThread"
    data_queue,       \* DBWriterThread.data_queue
    mainpc,           \* the main thread's position
    rc,               \* <<the status of client.loop() that ended the loop>>
    exit_code,        \* <<>> while the process runs, <<code>> once it exited
    exit_reason,      \* the error that ended the process
    wpc,              \* the writer thread's position
    items,            \* get_items: items
    elapsed,          \* get_items: time.time() - started, in ticks
    db_req_body,      \* run: db_req_body
    enqueued,         \* history: every item appended, in order
    drained,          \* history: the results of the get_items calls, joined
    written,          \* history: the records passed to write_points, joined
    write_failed,     \* history: a write_points call has raised
    queue_at_call,    \* history: data_queue when get_items was called
    pop_time,         \* history: ticks this get_items call spent popping
    handled,          \* history: what on_mqtt_message last did
    steps_after_death \* history: client.loop() returns since the writer died

vars == <<db_writer, data_queue, mainpc, rc, exit_code, exit_reason, wpc,
          items, elapsed, db_req_body, enqueued, drained, written, write_failed,
          queue_at_call, pop_time, handled, steps_after_death>>

mainvars == <<mainpc, rc, exit_code, exit_reason, steps_after_death>>
writervars == <<wpc, items, elapsed, db_req_body, drained, written,
                write_failed,
                queue_at_call, pop_time>>
queuevars == <<data_queue, enqueued>>

NotHandled == [outcome |-> "none", utf8 |-> TRUE]

Init ==
    /\ db_writer = "None"
    /\ data_queue = <<>>
    /\ mainpc = "create"
    /\ rc = <<>>
    /\ exit_code = <<>>
    /\ exit_reason = "none"
    /\ wpc = "not_started"
    /\ items = <<>>
    /\ elapsed = 0
    /\ db_req_body = <<>>
    /\ enqueued = <<>>
    /\ drained = <<>>
    /\ written = <<>>
    /\ write_failed = FALSE
    /\ queue_at_call = <<>>
    /\ pop_time = 0
    /\ handled = NotHandled
    /\ steps_after_death = 0

\* the process is running (exit ends the daemon writer thread too)
Running == mainpc # "exited"

\* Thread.is_alive(): started and run() has not ended
is_alive == wpc \notin {"not_started", "dead"}

(* ------------------------- DBWriterThread ------------------------------ *)

\* an append that waits while the queue holds two items (a bounded queue)
schedule_item_bounded(client, device_id, control_id, value) ==
    LET item == <<client, device_id, control_id, value>> IN
    /\ Len(data_queue) < 2
    /\ data_queue' = Append(data_queue, item)
    /\ enqueued' = Append(enqueued, item)

\* an append that waits while get_items sleeps (a lock held over the wait)
schedule_item_locked(client, device_id, control_id, value) ==
    LET item == <<client, device_id, control_id, value>> IN
    /\ wpc # "sleep"
    /\ data_queue' = Append(data_queue, item)
    /\ enqueued' = Append(enqueued, item)

\* schedule_item: the tuple is appended to the deque (one atomic append)
schedule_item(client, device_id, control_id, value) ==
    LET item == <<client, device_id, control_id, value>> IN
    /\ data_queue' = Append(data_queue, item)
    /\ enqueued' = Append(enqueued, item)

\* a call of the public method schedule_item by any other caller
ScheduleItemCall ==
    /\ Running
    /\ db_writer = "DBWriterThread"
    /\ Len(enqueued) < MaxEnq
    /\ \E it \in DirectItems : schedule_item(it[1], it[2], it[3], it[4])
    /\ UNCHANGED <<db_writer, mainvars, writervars, handled>>

\* a pop from the wrong end of the deque
pop_right(q) == [item |-> q[Len(q)], rest |-> SubSeq(q, 1, Len(q) - 1)]

\* the head read but left in the deque
popleft_peek(q) == [item |-> Head(q), rest |-> q]

\* deque.popleft() on a non-empty deque: the head, and what is left
popleft(q) == [item |-> Head(q), rest |-> Tail(q)]

\* the loop condition with "<=" for the count: one item too many
LoopConditionCountOff(e, n) == e < mininterval /\ n <= maxitems

\* the loop condition with "<=" for the time: one round too many
LoopConditionTimeOff(e, n) == e <= mininterval /\ n < maxitems

\* the loop condition with the time comparison turned round
LoopConditionInverted(e, n) == e > mininterval /\ n < maxitems

\* the condition of the while loop of get_items
LoopCondition(e, n) == e < mininterval /\ n < maxitems

\* mininterval * 0.1
IdleSleep == mininterval \div IdleDivisor

\* get_items is entered: started = time.time(), items = []
GetItemsCall ==
    /\ Running
    /\ wpc = "get_items"
    /\ wpc' = "while"
    /\ items' = <<>>
    /\ elapsed' = 0
    /\ pop_time' = 0
    /\ queue_at_call' = data_queue
    /\ UNCHANGED <<db_writer, queuevars, mainvars, db_req_body, drained,
                   written, write_failed, handled>>

\* the while condition holds and popleft succeeds: the head moves to items;
\* the clock may advance
PopLeft ==
    /\ Running
    /\ wpc = "while"
    /\ LoopCondition(elapsed, Len(items))
    /\ data_queue # <<>>
    /\ data_queue' = popleft(data_queue).rest
    /\ items' = Append(items, popleft(data_queue).item)
    /\ \E d \in PopTicks :
          /\ elapsed' = elapsed + d
          /\ pop_time' = pop_time + d
    /\ wpc' = "while"
    /\ UNCHANGED <<db_writer, enqueued, mainvars, db_req_body, drained,
                   written, write_failed, queue_at_call, handled>>

\* an empty deque ends the call at once instead of idling
PopLeftIndexErrorReturns ==
    /\ Running
    /\ wpc = "while"
    /\ LoopCondition(elapsed, Len(items))
    /\ data_queue = <<>>
    /\ wpc' = "return"
    /\ UNCHANGED <<db_writer, queuevars, mainvars, items, elapsed, db_req_body,
                   drained, written, write_failed, queue_at_call, pop_time,
                   handled>>

\* the while condition holds and popleft raises IndexError on the empty
\* deque: on to the sleep
PopLeftIndexError ==
    /\ Running
    /\ wpc = "while"
    /\ LoopCondition(elapsed, Len(items))
    /\ data_queue = <<>>
    /\ wpc' = "sleep"
    /\ UNCHANGED <<db_writer, queuevars, mainvars, items, elapsed, db_req_body,
                   drained, written, write_failed, queue_at_call, pop_time,
                   handled>>

\* the while condition fails: the loop is left
LoopExit ==
    /\ Running
    /\ wpc = "while"
    /\ ~LoopCondition(elapsed, Len(items))
    /\ wpc' = "return"
    /\ UNCHANGED <<db_writer, queuevars, mainvars, items, elapsed, db_req_body,
                   drained, written, write_failed, queue_at_call, pop_time,
                   handled>>

\* time.sleep(mininterval * 0.1) is over
Sleep ==
    /\ Running
    /\ wpc = "sleep"
    /\ elapsed' = elapsed + IdleSleep
    /\ wpc' = "while"
    /\ UNCHANGED <<db_writer, queuevars, mainvars, items, db_req_body, drained,
                   written, write_failed, queue_at_call, pop_time, handled>>

\* return items: the frame of get_items is gone
Return ==
    /\ Running
    /\ wpc = "return"
    /\ drained' = drained \o items
    /\ wpc' = "serialize"
    /\ elapsed' = 0
    /\ pop_time' = 0
    /\ queue_at_call' = <<>>
    /\ UNCHANGED <<db_writer, queuevars, mainvars, items, db_req_body,
                   written, write_failed, handled>>

\* the for loop of run: the records of the items that serialize to one
RECURSIVE SerializeAll(_)
SerializeAll(its) ==
    IF its = <<>> THEN <<>>
    ELSE LET it == Head(its) IN
         serialize_data_item(it[1], it[2], it[3], it[4]) \o SerializeAll(Tail(its))

\* an empty batch goes straight to the next get_items, without the sleep
SerializeSkipsIdle ==
    /\ Running
    /\ wpc = "serialize"
    /\ db_req_body' = SerializeAll(items)
    /\ wpc' = IF db_req_body' # <<>> THEN "write_points" ELSE "get_items"
    /\ UNCHANGED <<db_writer, queuevars, mainvars, items, elapsed, drained,
                   written, write_failed, queue_at_call, pop_time, handled>>

\* "if db_req_body" left out: write_points is called with any batch
SerializeAlwaysWrites ==
    /\ Running
    /\ wpc = "serialize"
    /\ db_req_body' = SerializeAll(items)
    /\ wpc' = "write_points"
    /\ UNCHANGED <<db_writer, queuevars, mainvars, items, elapsed, drained,
                   written, write_failed, queue_at_call, pop_time, handled>>

\* run, from the return of get_items to "if db_req_body"
Serialize ==
    /\ Running
    /\ wpc = "serialize"
    /\ db_req_body' = SerializeAll(items)
    /\ wpc' = IF db_req_body' # <<>> THEN "write_points" ELSE "cycle_sleep"
    /\ UNCHANGED <<db_writer, queuevars, mainvars, items, elapsed, drained,
                   written, write_failed, queue_at_call, pop_time, handled>>

\* one write_points call per record instead of one per batch
WritePointsPerRecord ==
    /\ Running
    /\ wpc = "write_points"
    /\ written' = Append(written, Head(db_req_body))
    /\ db_req_body' = Tail(db_req_body)
    /\ UNCHANGED write_failed
    /\ wpc' = IF db_req_body' # <<>> THEN "write_points" ELSE "cycle_sleep"
    /\ UNCHANGED <<db_writer, queuevars, mainvars, items, elapsed,
                   drained, queue_at_call, pop_time, handled>>

\* influx_client.write_points(db_req_body) returns
WritePoints ==
    /\ Running
    /\ wpc = "write_points"
    /\ written' = written \o db_req_body
    /\ UNCHANGED write_failed
    /\ wpc' = "cycle_sleep"
    /\ UNCHANGED <<db_writer, queuevars, mainvars, items, elapsed, db_req_body,
                   drained, queue_at_call, pop_time, handled>>

\* the write error is swallowed and the loop goes on
WritePointsRaisesCaught ==
    /\ Running
    /\ wpc = "write_points"
    /\ written' = written \o db_req_body
    /\ write_failed' = TRUE
    /\ wpc' = "cycle_sleep"
    /\ UNCHANGED <<db_writer, queuevars, mainvars, items, elapsed, db_req_body,
                   drained, queue_at_call, pop_time, handled>>

\* influx_client.write_points(db_req_body) raises: run ends, the thread dies
WritePointsRaises ==
    /\ Running
    /\ wpc = "write_points"
    /\ written' = written \o db_req_body
    /\ write_failed' = TRUE
    /\ wpc' = "dead"
    /\ UNCHANGED <<db_writer, queuevars, mainvars, items, elapsed, db_req_body,
                   drained, queue_at_call, pop_time, handled>>

\* time.sleep(0.01) is over: the next cycle
CycleSleepDone ==
    /\ Running
    /\ wpc = "cycle_sleep"
    /\ wpc' = "get_items"
    /\ items' = <<>>
    /\ db_req_body' = <<>>
    /\ UNCHANGED <<db_writer, queuevars, mainvars, elapsed, drained,
                   written, write_failed, queue_at_call, pop_time, handled>>

(* --------------------------- on_mqtt_message --------------------------- *)

\* the retain flag not looked at
AcceptedRetained(msg) == Len(TopicSplit[msg.topic]) = TopicParts

\* the two early returns passed: not retained, and 5 topic segments
Accepted(msg) == ~msg.retain /\ Len(TopicSplit[msg.topic]) = TopicParts

\* parts[1] taken for the device
DeviceIdOff(parts) == parts[2]

\* parts[2] and parts[4]
DeviceId(parts) == parts[3]
ControlId(parts) == parts[5]

\* what the handler did with msg, and whether its payload was UTF-8
Handled(msg, outcome) ==
    [outcome |-> outcome, utf8 |-> PayloadDecode[msg.payload].ok]

\* paho calls on_mqtt_message(msg) inside client.loop()
on_mqtt_message(msg) ==
    /\ mainpc = "loop"
    /\ IF ~Accepted(msg)
       THEN /\ handled' = Handled(msg, "discarded")
            /\ UNCHANGED <<queuevars, mainvars>>
       ELSE LET parts == TopicSplit[msg.topic]
                value == PayloadDecode[msg.payload]
            IN IF ~value.ok
               THEN \* UnicodeDecodeError leaves the handler and client.loop():
                    \* the main thread ends with a traceback, status 1
                    /\ handled' = Handled(msg, "raised")
                    /\ mainpc' = "exited"
                    /\ exit_code' = <<ExitFailure>>
                    /\ exit_reason' = "UnicodeDecodeError"
                    /\ UNCHANGED <<queuevars, rc, steps_after_death>>
               ELSE /\ Len(enqueued) < MaxEnq
                    /\ schedule_item(GlobalClient, DeviceId(parts),
                                     ControlId(parts), value.text)
                    /\ handled' = Handled(msg, "scheduled")
                    /\ UNCHANGED mainvars
    /\ UNCHANGED <<db_writer, writervars>>

OnMqttMessage == \E msg \in Messages : on_mqtt_message(msg)

(* ----------------------------- __main__ -------------------------------- *)

\* the writer bound to a local name: the global db_writer stays None
CreateWriterLocal ==
    /\ mainpc = "create"
    /\ db_writer' = db_writer
    /\ data_queue' = <<>>
    /\ mainpc' = "start"
    /\ UNCHANGED <<rc, exit_code, exit_reason, steps_after_death, enqueued,
                   writervars, handled>>

\* db_writer = DBWriterThread(influx_client, daemon=True)
CreateWriter ==
    /\ mainpc = "create"
    /\ db_writer' = "DBWriterThread"
    /\ data_queue' = <<>>
    /\ mainpc' = "start"
    /\ UNCHANGED <<rc, exit_code, exit_reason, steps_after_death, enqueued,
                   writervars, handled>>

\* db_writer.start()
StartWriter ==
    /\ mainpc = "start"
    /\ wpc' = "get_items"
    /\ mainpc' = "is_alive"
    /\ UNCHANGED <<db_writer, queuevars, rc, exit_code, exit_reason,
                   steps_after_death, items, elapsed, db_req_body, drained,
                   written, write_failed, queue_at_call, pop_time, handled>>

\* the liveness check left out: client.loop() is entered in any case
IsAliveCheckSkipped ==
    /\ mainpc = "is_alive"
    /\ mainpc' = "loop"
    /\ UNCHANGED <<db_writer, queuevars, rc, exit_code, exit_reason,
                   steps_after_death, writervars, handled>>

\* if not db_writer.is_alive(): exit(1); otherwise client.loop() is entered
IsAliveCheck ==
    /\ mainpc = "is_alive"
    /\ IF ~is_alive
       THEN /\ mainpc' = "exited"
            /\ exit_code' = <<ExitFailure>>
            /\ exit_reason' = InfluxError
       ELSE /\ mainpc' = "loop"
            /\ UNCHANGED <<exit_code, exit_reason>>
    /\ UNCHANGED <<db_writer, queuevars, rc, steps_after_death, writervars,
                   handled>>

\* a non-zero status is recorded and the loop goes on (a retry)
ClientLoopReturnRetries ==
    /\ mainpc = "loop"
    /\ \E r \in LoopStatus :
          rc' = IF r # 0 THEN <<r>> ELSE rc
    /\ mainpc' = "is_alive"
    /\ steps_after_death' = IF wpc = "dead" THEN steps_after_death + 1
                            ELSE steps_after_death
    /\ handled' = NotHandled
    /\ UNCHANGED <<db_writer, queuevars, writervars, exit_code, exit_reason>>

\* rc = client.loop() returns; if rc != 0: exit(1)
ClientLoopReturn ==
    /\ mainpc = "loop"
    /\ \E r \in LoopStatus :
          /\ IF r # 0
             THEN /\ rc' = <<r>>
                  /\ mainpc' = "exited"
                  /\ exit_code' = <<ExitFailure>>
                  /\ exit_reason' = MqttError
             ELSE /\ mainpc' = "is_alive"
                  /\ UNCHANGED <<rc, exit_code, exit_reason>>
    /\ steps_after_death' = IF wpc = "dead" THEN steps_after_death + 1
                            ELSE steps_after_death
    /\ handled' = NotHandled
    /\ UNCHANGED <<db_writer, queuevars, writervars>>

Next ==
    \/ CreateWriter
    \/ StartWriter
    \/ IsAliveCheck
    \/ OnMqttMessage
    \/ ClientLoopReturn
    \/ ScheduleItemCall
    \/ GetItemsCall
    \/ PopLeft
    \/ PopLeftIndexError
    \/ LoopExit
    \/ Sleep
    \/ Return
    \/ Serialize
    \/ WritePoints
    \/ WritePointsRaises
    \/ CycleSleepDone

Spec == Init /\ [][Next]_vars

\* the main thread keeps running: the liveness check is reached after every
\* client.loop() step, and client.loop() returns (it waits at most its
\* timeout)
SpecMonitorFair ==
    Spec /\ WF_vars(IsAliveCheck) /\ WF_vars(ClientLoopReturn)

\* a step of the writer thread that is not a failing write
WriterNext ==
    \/ GetItemsCall
    \/ PopLeft
    \/ PopLeftIndexError
    \/ LoopExit
    \/ Sleep
    \/ Return
    \/ Serialize
    \/ WritePoints
    \/ CycleSleepDone

\* the writer thread keeps running: every sleep ends, every call returns
SpecWriterFair == Spec /\ WF_vars(WriterNext)

(* ------------------ run, from a returned batch on ---------------------- *)

\* values that float() takes: "1", "1.5", "-2e3", "inf", "-Infinity", " 7 ",
\* "1 " (from "1\n"), "5.", "+.5"
NumericValues ==
    { <<49>>, <<49, 46, 53>>, <<45, 50, 101, 51>>, <<105, 110, 102>>,
      <<45, 73, 110, 102, 105, 110, 105, 116, 121>>, <<32, 55, 32>>,
      <<49, 10>>, <<53, 46>>, <<43, 46, 53>> }

\* values that float() refuses or turns into NaN: "\n", "nan", "NaN", "-nan",
\* "abc", "1e", ".", e acute, "1 2"
TextValues ==
    { <<10>>, <<110, 97, 110>>, <<78, 97, 78>>, <<45, 110, 97, 110>>,
      <<97, 98, 99>>, <<49, 101>>, <<46>>, <<233>>, <<49, 32, 50>> }

\* the decoded payloads a batch may hold, the empty one among them
SerializeValues == NumericValues \cup TextValues \cup {<<>>}

\* the items of a batch: two (device_id, control_id) pairs, "d"/"c" and
\* "c"/"d", with each value
BatchItems ==
    { <<GlobalClient, ids[1], ids[2], v>> :
         ids \in {<< <<100>>, <<99>> >>, << <<99>>, <<100>> >>},
         v \in SerializeValues }

\* the sequences over S of the lengths 1..n
SeqsUpTo(S, n) == UNION {[1..k -> S] : k \in 1..n}

\* get_items has just returned a batch of 1..maxitems items to run
InitBatch ==
    /\ db_writer = "DBWriterThread"
    /\ mainpc = "loop"
    /\ rc = <<>>
    /\ exit_code = <<>>
    /\ exit_reason = "none"
    /\ wpc = "serialize"
    /\ items \in SeqsUpTo(BatchItems, maxitems)
    /\ data_queue = <<>>
    /\ enqueued = items
    /\ drained = items
    /\ elapsed = 0
    /\ db_req_body = <<>>
    /\ written = <<>>
    /\ write_failed = FALSE
    /\ queue_at_call = <<>>
    /\ pop_time = 0
    /\ handled = NotHandled
    /\ steps_after_death = 0

\* the rest of the cycle of run
NextBatch ==
    \/ Serialize
    \/ WritePoints
    \/ WritePointsRaises
    \/ CycleSleepDone

SpecBatch == InitBatch /\ [][NextBatch]_vars

(* ------------------------------ claims --------------------------------- *)

IsPrefix(a, b) == Len(a) <= Len(b) /\ SubSeq(b, 1, Len(a)) = a

\* a get_items call is running or has just left its loop
InGetItems == wpc \in {"while", "sleep", "return"}

\* C1: the results of the successive get_items calls, joined (with the items
\* the running call holds so far), are a prefix of the items in the order
\* they were appended: nothing is reordered, skipped or duplicated.
C1_DrainIsPrefixOfEnqueue ==
    /\ IsPrefix(drained, enqueued)
    /\ InGetItems => IsPrefix(drained \o items, enqueued)

\* C1 witness: three items drained, of two origins interleaved (A1, B1, A2)
C1_Witness ==
    /\ Len(drained) >= 3
    /\ drained[1][1] # drained[2][1]
    /\ drained[3][1] = drained[1][1]

C3_Original == (wpc = "return" /\ pop_time <= Jitter) => elapsed <= mininterval

\* C3 amended: get_items returns no later than mininterval plus the time it
\* spent popping; its idle sleeps alone never add up to more than
\* mininterval and none starts at or after the deadline; on a queue that
\* stays empty it returns no items, at mininterval.
C3_DeadlinePlusPopTime ==
    /\ InGetItems => elapsed - pop_time <= mininterval
    /\ wpc = "sleep" => elapsed < mininterval
    /\ wpc = "return" => elapsed <= mininterval + pop_time
    /\ (wpc = "return" /\ queue_at_call = <<>> /\ enqueued = drained)
          => (items = <<>> /\ elapsed = mininterval)

\* C3 witness: a sleep begun before the deadline ended after it
C3_Witness ==
    /\ wpc = "return"
    /\ pop_time = Jitter
    /\ elapsed = mininterval + Jitter

\* C4: get_items returns only with maxitems items or with mininterval
\* elapsed, never with more than maxitems items, and a call holding fewer
\* than maxitems items does not return before the deadline.
C4_ReturnsOnlyAtABound ==
    /\ InGetItems => Len(items) <= maxitems
    /\ wpc = "return" => (Len(items) = maxitems \/ elapsed >= mininterval)
    /\ (wpc = "return" /\ Len(items) < maxitems) => elapsed >= mininterval

\* C4 witness: a call that waited on an empty queue to the deadline and
\* returns a single item
C4_Witness ==
    /\ wpc = "return"
    /\ queue_at_call = <<>>
    /\ Len(items) = 1
    /\ Len(items) < maxitems
    /\ pop_time = 0
    /\ elapsed >= mininterval

\* C5: a write_points call that raises ends the writer: the step leaves it
\* dead, and from then on nothing is drained, serialized or written, the
\* deque only grows by new schedule_item appends (the failed batch does not
\* come back), and is_alive() is false.
C5_FailedWriteEndsWriter ==
    [][ /\ write_failed' => (wpc' = "dead" /\ ~is_alive')
        /\ write_failed =>
              /\ UNCHANGED <<written, drained, items, db_req_body>>
              /\ \/ UNCHANGED <<data_queue, enqueued>>
                 \/ /\ Len(enqueued') = Len(enqueued) + 1
                    /\ data_queue' = Append(data_queue, enqueued'[Len(enqueued')])
      ]_vars

\* C5 witness: the writer is dead after a write that raised, with its batch
\* recorded, an item still queued and the main thread still running
C5_Witness ==
    /\ write_failed
    /\ wpc = "dead"
    /\ written # <<>>
    /\ db_req_body # <<>>
    /\ data_queue # <<>>
    /\ mainpc = "loop"

\* C6: after the writer died at most one client.loop() step completes; once
\* it has, the main thread is at the liveness check, and the check of a dead
\* writer exits with status 1 and the storage error, with no further step;
\* with the main thread running on, a dead writer leads to the exit, status 1.
C6_DeathDetectedInOneIteration ==
    /\ [][ /\ steps_after_death <= 1
           /\ steps_after_death' <= 1
           /\ (steps_after_death' = 1 /\ mainpc' # "exited")
                 => mainpc' = "is_alive"
           /\ exit_reason' = InfluxError
                 => (wpc' = "dead" /\ mainpc' = "exited"
                        /\ exit_code' = <<ExitFailure>>)
           /\ (mainpc = "is_alive" /\ wpc = "dead" /\ mainpc' # mainpc)
                 => /\ mainpc' = "exited"
                    /\ exit_code' = <<ExitFailure>>
                    /\ exit_reason' = InfluxError
                    /\ steps_after_death' = steps_after_death
         ]_vars
    /\ (wpc = "dead") ~> (mainpc = "exited" /\ exit_code = <<ExitFailure>>)

\* C6 witness: the process exited on the storage error after the one
\* client.loop() step that completed since the writer died
C6_Witness ==
    /\ mainpc = "exited"
    /\ exit_reason = InfluxError
    /\ steps_after_death = 1

\* C7: the process exits only with status 1 and only on a failure: a
\* non-zero status of client.loop() ends it at once, and an exited process
\* has a dead writer or a client.loop() step that did not return 0 (it
\* returned non-zero, or a handler error left it); while it runs no exit
\* status exists.
C7_ExitsOnlyOnFailureWithOne ==
    /\ mainpc = "exited" <=> exit_code # <<>>
    /\ exit_code # <<>> => exit_code = <<ExitFailure>>
    /\ rc # <<>> => (rc[1] # 0 /\ mainpc = "exited" /\ exit_reason = MqttError)
    /\ mainpc = "exited" =>
          \/ exit_reason = InfluxError /\ wpc = "dead"
          \/ exit_reason = MqttError /\ rc # <<>>
          \/ exit_reason = "UnicodeDecodeError" /\ handled.outcome = "raised"

\* C7 witness: the process exited on a non-zero status with the writer alive
C7_Witness ==
    /\ mainpc = "exited"
    /\ exit_reason = MqttError
    /\ rc = <<7>>
    /\ is_alive

\* C8: schedule_item can always run (up to the number of appends explored),
\* wherever the writer is and whatever the queue holds, and its one step
\* appends the item at the tail and changes nothing else of the queue or of
\* the writer.
C8_EnqueueNeverBlocks ==
    [][ /\ (mainpc # "exited" /\ db_writer = "DBWriterThread"
               /\ Len(enqueued) < MaxEnq) => ENABLED ScheduleItemCall
        /\ enqueued' # enqueued =>
              /\ Len(enqueued') = Len(enqueued) + 1
              /\ data_queue' = Append(data_queue, enqueued'[Len(enqueued')])
              /\ SubSeq(enqueued', 1, Len(enqueued)) = enqueued
              /\ UNCHANGED writervars
      ]_vars

\* C8 witness: an item was appended while the writer idled in get_items on
\* a queue it had found empty
C8_Witness ==
    /\ wpc = "sleep"
    /\ data_queue # <<>>
    /\ Len(data_queue) = Len(enqueued)

\* the messages C9 is about
DiscardCases ==
    {msg \in Messages : msg.retain \/ Len(TopicSplit[msg.topic]) # 5}

\* C9: a message that is retained, or whose topic does not split into 5
\* segments, changes neither the queue nor the main thread's course: nothing
\* is appended and no error leaves the handler, whatever its payload.
C9_DiscardedMessagesLeaveQueue ==
    [][ \/ UNCHANGED <<data_queue, enqueued, mainpc, exit_code, exit_reason>>
        \/ \A msg \in DiscardCases : ~on_mqtt_message(msg)
      ]_vars

\* C9 witness: a message whose payload is not UTF-8 was discarded and the
\* process runs on
C9_Witness ==
    /\ handled.outcome = "discarded"
    /\ ~handled.utf8
    /\ mainpc = "loop"

\* the messages C10 is about
AcceptCases ==
    {msg \in Messages : /\ ~msg.retain
                        /\ Len(TopicSplit[msg.topic]) = 5
                        /\ PayloadDecode[msg.payload].ok}

\* C10: a message that is not retained, with a 5-segment topic and a UTF-8
\* payload, appends exactly one item: the global client, topic segment 2,
\* topic segment 4 and the decoded payload; "x/y/d/z/c" with b"\xc3\xa9"
\* gives device_id "d", control_id "c" and the one code point 233.
C10_AcceptedMessageEnqueuesItem ==
    [][ mainpc = "loop" =>
          \A msg \in AcceptCases :
             on_mqtt_message(msg)
             => /\ data_queue' =
                      Append(data_queue,
                             <<GlobalClient, TopicSplit[msg.topic][3],
                               TopicSplit[msg.topic][5], PayloadDecode[msg.payload].text>>)
                /\ Len(enqueued') = Len(enqueued) + 1
                /\ (msg.topic = Topic5 /\ msg.payload = <<195, 169>>)
                      => data_queue'[Len(data_queue')]
                            = <<"client", <<100>>, <<99>>, <<233>>>>
      ]_vars

\* C10 witness: the handler has just appended the item of "x/y/d/z/c"
C10_Witness ==
    /\ handled.outcome = "scheduled"
    /\ data_queue # <<>>
    /\ data_queue[Len(data_queue)] = <<"client", <<100>>, <<99>>, <<233>>>>

\* byte strings that are not UTF-8: a byte that never occurs in UTF-8, and a
\* two-byte form cut after its lead byte
InvalidPayloads == {<<255>>, <<49, 195>>}

\* the messages C11 is about
RaiseCases ==
    {msg \in Messages : /\ ~msg.retain
                        /\ Len(TopicSplit[msg.topic]) = 5
                        /\ msg.payload \in InvalidPayloads}

\* C11: a message that is not retained, with a 5-segment topic and a payload
\* that is not UTF-8, is not dropped in silence: the decode error leaves the
\* handler (and with it client.loop() and the main thread, status 1), and
\* nothing is appended: the queue is as it was.
C11_DecodeErrorPropagates ==
    [][ mainpc = "loop" =>
          \A msg \in RaiseCases :
             on_mqtt_message(msg)
             => /\ UNCHANGED <<data_queue, enqueued>>
                /\ handled'.outcome = "raised"
                /\ mainpc' = "exited"
                /\ exit_code' = <<ExitFailure>>
                /\ exit_reason' = "UnicodeDecodeError"
      ]_vars

\* C11 witness: the decode error ended the main thread with items still in
\* the queue
C11_Witness ==
    /\ handled.outcome = "raised"
    /\ ~handled.utf8
    /\ exit_reason = "UnicodeDecodeError"
    /\ data_queue # <<>>

\* the items of a batch that are not dropped: the value, with its newlines
\* replaced, is not empty
Kept(its) == SelectSeq(its, LAMBDA it : ReplaceNewline(it[4]) # <<>>)

\* the for loop of run has filled db_req_body
Serialized == wpc \in {"write_points", "cycle_sleep", "dead"}

\* C12: every item whose value, newlines replaced, is not empty gives a
\* record with exactly one field: value_f, the parsed number, when the value
\* is a float literal other than NaN, and value_s, the value with its
\* newlines replaced, when it is not; its tags are the item's device_id and
\* control_id and its measurement is "mqtt_data".  "1.5" gives 15 * 10^-1,
\* "-2e3" gives -2 * 10^3.
C12_ExactlyOneValueField ==
    Serialized =>
       /\ Len(db_req_body) = Len(Kept(items))
       /\ \A i \in 1..Len(db_req_body) :
             LET it == Kept(items)[i]
                 r == db_req_body[i]
                 v == ReplaceNewline(it[4])
             IN /\ r.measurement = "mqtt_data"
                /\ r.tags = [device_id |-> it[2], control_id |-> it[3]]
                /\ DOMAIN r.fields \in {{"value_f"}, {"value_s"}}
                /\ "value_f" \in DOMAIN r.fields <=> it[4] \in NumericValues
                /\ "value_f" \in DOMAIN r.fields
                      => /\ r.fields.value_f = float(v)
                         /\ r.fields.value_f.kind \in {"finite", "inf"}
                /\ "value_s" \in DOMAIN r.fields
                      => /\ r.fields.value_s = [kind |-> "str", s |-> v]
                         /\ float(v).kind \in {"ValueError", "nan"}
                /\ it[4] = <<49, 46, 53>>
                      => r.fields.value_f = [kind |-> "finite", neg |-> FALSE,
                                             mant |-> 15, exp |-> -1]
                /\ it[4] = <<45, 50, 101, 51>>
                      => r.fields.value_f = [kind |-> "finite", neg |-> TRUE,
                                             mant |-> 2, exp |-> 3]

\* C12 witness: a batch of "nan" and " 7 " was serialized into a text
\* record and a number record
C12_Witness ==
    /\ wpc = "write_points"
    /\ Len(items) = 2
    /\ items[1][4] = <<110, 97, 110>>
    /\ items[2][4] = <<32, 55, 32>>
    /\ DOMAIN db_req_body[1].fields = {"value_s"}
    /\ DOMAIN db_req_body[2].fields = {"value_f"}

\* the items whose raw value is not empty
NonEmpty(its) == SelectSeq(its, LAMBDA it : it[4] # <<>>)

\* the value a record carries is not the empty string
RecordHasValue(r) ==
    \/ "value_f" \in DOMAIN r.fields
    \/ r.fields.value_s.s # <<>>

\* C13: an item with an empty value gives no record: no record passed to
\* write_points carries an empty value, the batch built from the drained
\* items is the serialization of the non-empty ones alone, and the empty item
\* is no error: the for loop ends in the write of the others (or in the idle
\* sleep when there are none), never in the death of the writer.
C13_EmptyValueDropped ==
    /\ [](/\ \A i \in 1..Len(written) : RecordHasValue(written[i])
          /\ Serialized
                => /\ db_req_body = SerializeAll(NonEmpty(items))
                   /\ Len(db_req_body) = Len(NonEmpty(items))
                   /\ \A i \in 1..Len(db_req_body) :
                         RecordHasValue(db_req_body[i]))
    /\ [][ (wpc = "serialize" /\ wpc' # wpc)
              => /\ wpc' = IF NonEmpty(items) # <<>> THEN "write_points"
                           ELSE "cycle_sleep"
                 /\ ~write_failed'
                 /\ is_alive'
         ]_vars

\* C13 witness: a batch of an empty item and a non-empty one was written as
\* one record, and the writer lives on
C13_Witness ==
    /\ wpc = "cycle_sleep"
    /\ Len(items) = 2
    /\ items[1][4] = <<>>
    /\ items[2][4] # <<>>
    /\ Len(db_req_body) = 1
    /\ written # <<>>
    /\ ~write_failed

\* C14: write_points is never called with an empty batch: a cycle whose
\* get_items returned nothing, or whose items were all dropped, goes from the
\* for loop to the idle sleep with nothing written, and from there on to the
\* next get_items; every call of write_points carries a record.
C14_NoEmptyWrite ==
    /\ [](wpc = "write_points" => db_req_body # <<>>)
    /\ [][ /\ (wpc = "serialize" /\ wpc' # wpc /\ NonEmpty(items) = <<>>)
                 => /\ wpc' = "cycle_sleep"
                    /\ db_req_body' = <<>>
                    /\ written' = written
           /\ (wpc = "cycle_sleep" /\ db_req_body = <<>> /\ Running)
                 => /\ ENABLED CycleSleepDone
                    /\ wpc' # wpc => (wpc' = "get_items" /\ written' = written)
           /\ (wpc = "write_points" /\ wpc' # wpc)
                 => Len(written') > Len(written)
         ]_vars

\* C14 witness: a cycle whose items were all dropped is at its idle sleep
\* and nothing was ever written
C14_Witness ==
    /\ wpc = "cycle_sleep"
    /\ Len(items) = maxitems
    /\ db_req_body = <<>>
    /\ written = <<>>

\* the items get_items is collecting, not yet returned
Collecting == IF InGetItems THEN items ELSE <<>>

\* the drained items whose cycle is past its write_points call (or skipped
\* it)
Consumed ==
    IF wpc \in {"serialize", "write_points"}
    THEN SubSeq(drained, 1, Len(drained) - Len(items))
    ELSE drained

\* C15: every appended item is in exactly one place: the items returned by
\* get_items so far, then the items the running call holds, then the queue,
\* make up the items appended, in order; the batch run holds is the end of
\* the returned items; and the records written are the serialization of the
\* returned items of the cycles past their write, each once.
C15_ItemInExactlyOnePlace ==
    /\ enqueued = drained \o Collecting \o data_queue
    /\ ~InGetItems /\ wpc # "get_items"
          => /\ Len(items) <= Len(drained)
             /\ items = SubSeq(drained, Len(drained) - Len(items) + 1,
                               Len(drained))
    /\ written = SerializeAll(Consumed)

\* C15 witness: items written, an item held by the running get_items call
\* and an item queued, all at once
C15_Witness ==
    /\ wpc = "while"
    /\ written # <<>>
    /\ items # <<>>
    /\ data_queue # <<>>

\* the process has ended or a write has failed
Stopped == write_failed \/ mainpc = "exited"

\* the records of the non-empty ones of the first n appended items have been
\* passed to write_points
WrittenUpTo(n) ==
    /\ Len(enqueued) >= n
    /\ Len(written) >= Len(NonEmpty(SubSeq(enqueued, 1, n)))

\* the n-th appended item has been returned by get_items and, when its
\* value is not empty, its record has been passed to write_points
Handed(n) ==
    /\ Len(drained) >= n
    /\ enqueued[n][4] # <<>> => WrittenUpTo(n)

\* C16: with the writer thread started and running on, and unless a write
\* fails or the process exits, the n-th appended item is in the end returned
\* by get_items, and, when its value is not empty, its record is in the end
\* passed to write_points, however the appends are interleaved with the
\* writer: at every moment a later one comes at which the item, if it was
\* appended, has been handed on (and an item appended or handed on stays so).
C16_EveryItemDrainedAndWritten ==
    \A n \in 1..MaxEnq :
       []<>(\/ ~(Len(enqueued) >= n /\ wpc # "not_started")
            \/ Handed(n)
            \/ Stopped)

\* C16 witness: every item appended was returned, the non-empty ones were
\* written and an empty one was dropped, with no write failed and the
\* process running
C16_Witness ==
    /\ Len(enqueued) >= 3
    /\ drained = enqueued
    /\ NonEmpty(drained) # drained
    /\ Len(written) = Len(NonEmpty(drained))
    /\ written # <<>>
    /\ ~Stopped

\* the items appended since the running get_items call began
EnqueuedSinceCall ==
    SubSeq(enqueued, Len(drained) + Len(queue_at_call) + 1, Len(enqueued))

\* C17: the wait of get_items excludes nothing: while it sleeps on the empty
\* queue schedule_item can run, and its append completes without touching
\* the call; what the call holds and what the queue holds are the items
\* queued at its start and the items appended since, in order; and whenever
\* the loop condition holds on a non-empty queue the next step of the call
\* pops the head into its items, whenever that head was appended.
C17_EnqueueDuringIdleWait ==
    /\ [](InGetItems => items \o data_queue = queue_at_call \o EnqueuedSinceCall)
    /\ [][ /\ (wpc = "sleep" /\ Running /\ Len(enqueued) < MaxEnq)
                 => ENABLED ScheduleItemCall
           /\ (wpc = "sleep" /\ enqueued' # enqueued)
                 => /\ data_queue' = Append(data_queue, enqueued'[Len(enqueued')])
                    /\ UNCHANGED writervars
           /\ (wpc = "while" /\ data_queue # <<>>
                  /\ LoopCondition(elapsed, Len(items)) /\ Running)
                 => /\ ENABLED PopLeft
                    /\ ~ENABLED LoopExit
                    /\ items' # items
                          => /\ items' = Append(items, Head(data_queue))
                             /\ data_queue' = Tail(data_queue)
         ]_vars

\* C17 witness: a call that began on an empty queue and slept returns,
\* before its deadline, maxitems items appended while it ran
C17_Witness ==
    /\ wpc = "return"
    /\ queue_at_call = <<>>
    /\ Len(items) = maxitems
    /\ pop_time = 0
    /\ elapsed > 0
    /\ elapsed < mininterval

\* C18: a cycle calls write_points at most once, with the records of the
\* non-dropped items its one get_items call returned, in their order:
\* write_points is entered only from the for loop, which is entered only from
\* the return of get_items, and is left only for the idle sleep or the death
\* of the writer; the step of the call passes exactly the serialization of
\* the batch, 1 to maxitems records (50 in run), and the batch is the end of
\* the items returned so far.
C18_OneWritePerCycle ==
    [][ /\ (wpc' = "write_points" /\ wpc # wpc') => wpc = "serialize"
        /\ (wpc' = "serialize" /\ wpc # wpc') => wpc = "return"
        /\ wpc = "write_points"
              => /\ db_req_body = SerializeAll(items)
                 /\ Len(db_req_body) \in 1..maxitems
                 /\ Len(items) <= maxitems
                 /\ items = SubSeq(drained, Len(drained) - Len(items) + 1,
                                   Len(drained))
                 /\ wpc' # wpc
                       => /\ wpc' \in {"cycle_sleep", "dead"}
                          /\ written' = written \o SerializeAll(items)
        /\ written' # written => (wpc = "write_points" /\ wpc' # wpc)
      ]_vars

\* C18 witness: a cycle has written the maxitems records of its batch in
\* one call, after an earlier cycle's write
C18_Witness ==
    /\ wpc = "cycle_sleep"
    /\ Len(items) = maxitems
    /\ Len(db_req_body) = maxitems
    /\ Len(written) > maxitems
    /\ ~write_failed

\* the steps of the writer thread from one position to another
CycleOrder ==
    { <<"not_started", "get_items">>, <<"get_items", "while">>,
      <<"while", "sleep">>, <<"sleep", "while">>, <<"while", "return">>,
      <<"return", "serialize">>, <<"serialize", "write_points">>,
      <<"serialize", "cycle_sleep">>, <<"write_points", "cycle_sleep">>,
      <<"write_points", "dead">>, <<"cycle_sleep", "get_items">> }

\* C19: the writer goes round get_items, the for loop, write_points only
\* with a non-empty batch, the idle sleep, and get_items again: it steps in
\* no other order, a new get_items call begins only from the idle sleep (or
\* the start of the thread), the writer ends only in a write_points call that
\* raises and can step in every other position; with the writer running on,
\* a next get_items call always comes (and so, by the order of the steps,
\* every cycle, an empty one too, passes its idle sleep), unless a write
\* fails or the process exits.
C19_FixedCycle ==
    /\ [][ /\ wpc' # wpc => <<wpc, wpc'>> \in CycleOrder
           /\ (wpc = "serialize" /\ wpc' # wpc)
                 => (wpc' = "write_points" <=> SerializeAll(items) # <<>>)
           /\ (wpc' = "dead" /\ wpc # wpc') => write_failed'
           /\ (Running /\ is_alive) => ENABLED (WriterNext \/ WritePointsRaises)
         ]_vars
    /\ []<>(wpc \in {"not_started", "get_items"} \/ Stopped)

\* C19 witness: an empty cycle is at its idle sleep, after a cycle that
\* wrote
C19_Witness ==
    /\ wpc = "cycle_sleep"
    /\ items = <<>>
    /\ written # <<>>
    /\ ~Stopped

\* C20: the handler never finds db_writer None: client.loop() is entered
\* only with the writer created and started, nothing is appended and no
\* message is handled before, and db_writer is None only before the writer
\* is created.
C20_WriterExistsWhenHandlerRuns ==
    /\ mainpc = "loop" => (db_writer = "DBWriterThread" /\ wpc # "not_started")
    /\ handled.outcome # "none" => db_writer = "DBWriterThread"
    /\ enqueued # <<>> => db_writer = "DBWriterThread"
    /\ db_writer = "None" <=> mainpc = "create"

\* C20 witness: the handler has appended an item to the queue of the
\* writer, which was started and has not yet run
C20_Witness ==
    /\ handled.outcome = "scheduled"
    /\ db_writer = "DBWriterThread"
    /\ wpc = "get_items"
    /\ data_queue # <<>>

====
